---- MODULE Spec2Model ----
(***************************************************************************)
(* Model of src/inc/msquic_winkernel.h: the QUIC_ADDR helpers and the      *)
(* QUIC_STATUS mapping of the Windows kernel mode platform header.         *)
(*                                                                         *)
(* A QUIC_ADDR is a SOCKADDR_INET, the union of SOCKADDR_IN and            *)
(* SOCKADDR_IN6.  It is modelled as its memory image, a function from the  *)
(* byte offsets 0..27 to bytes, so that the overlap of the two variants    *)
(* is part of the model:                                                   *)
(*    0.. 1  si_family / sin_family / sin6_family                          *)
(*    2.. 3  sin_port / sin6_port                                          *)
(*    4.. 7  sin_addr (IPv4)          / sin6_flowinfo                      *)
(*    8..23  sin_zero (8..15)         / sin6_addr (IPv6)                   *)
(*   24..27                             sin6_scope_id                      *)
(* Multi-byte fields are little-endian, as on every Windows target.        *)
(* 32-bit unsigned values are pairs <<high 16 bits, low 16 bits>>.         *)
(***************************************************************************)
EXTENDS Integers, Sequences, FiniteSets

(***************************************************************************)
(* Platform constants used by the header.                                  *)
(***************************************************************************)
AF_UNSPEC == 0
AF_INET == 2
AF_INET6 == 23

UINT8_MAX == 255
UINT16_MAX == 65535

QUIC_ADDR_V4_PORT_OFFSET == 2
QUIC_ADDR_V4_IP_OFFSET == 4
QUIC_ADDR_V6_PORT_OFFSET == 2
QUIC_ADDR_V6_IP_OFFSET == 8
\* FIELD_OFFSET(SOCKADDR_IN6, sin6_scope_id)
QUIC_ADDR_V6_SCOPE_OFFSET == 24
\* sizeof(IN_ADDR), sizeof(IN6_ADDR), sizeof(QUIC_ADDR)
SizeofInAddr == 4
SizeofIn6Addr == 16
SizeofQuicAddr == 28

Byte == 0..UINT8_MAX
Offsets == 0..(SizeofQuicAddr - 1)

(***************************************************************************)
(* Memory access.                                                          *)
(***************************************************************************)
Read16(A, off) == A[off] + 256 * A[off + 1]

Write16(A, off, v) ==
    [A EXCEPT ![off] = v % 256, ![off + 1] = (v \div 256) % 256]

Write8(A, off, v) == [A EXCEPT ![off] = v % 256]

\* A 32-bit little-endian field, as <<high half, low half>>.
Read32(A, off) == <<Read16(A, off + 2), Read16(A, off)>>

\* memcmp(p, q, n) == 0
MemEqual(A, offA, B, offB, n) ==
    \A i \in 0..(n - 1) : A[offA + i] = B[offB + i]

\* The memory image with the given contents in every region; v4, v6 and
\* scope are byte sequences of length 4, 16 and 4 in memory order.
MkAddr(family, rawPort, v4, v6, scope) ==
    [i \in Offsets |->
        IF i = 0 THEN family % 256
        ELSE IF i = 1 THEN (family \div 256) % 256
        ELSE IF i = QUIC_ADDR_V4_PORT_OFFSET THEN rawPort % 256
        ELSE IF i = QUIC_ADDR_V4_PORT_OFFSET + 1 THEN (rawPort \div 256) % 256
        ELSE IF i < QUIC_ADDR_V6_IP_OFFSET THEN v4[i - QUIC_ADDR_V4_IP_OFFSET + 1]
        ELSE IF i < QUIC_ADDR_V6_SCOPE_OFFSET THEN v6[i - QUIC_ADDR_V6_IP_OFFSET + 1]
        ELSE scope[i - QUIC_ADDR_V6_SCOPE_OFFSET + 1]]

si_family(A) == Read16(A, 0)
sin_port(A) == Read16(A, QUIC_ADDR_V4_PORT_OFFSET)
sin6_port(A) == Read16(A, QUIC_ADDR_V6_PORT_OFFSET)
sin6_scope_id(A) == Read32(A, QUIC_ADDR_V6_SCOPE_OFFSET)
\* The address bytes of each variant, in memory order.
sin_addr(A) == [i \in 1..SizeofInAddr |-> A[QUIC_ADDR_V4_IP_OFFSET + i - 1]]
sin6_addr(A) == [i \in 1..SizeofIn6Addr |-> A[QUIC_ADDR_V6_IP_OFFSET + i - 1]]

(***************************************************************************)
(* QuicNetByteSwapShort and the address helpers.                           *)
(***************************************************************************)
\* x & 0x00ff and x & 0xff00 on a 16-bit value
AndLow(x) == x % 256
AndHigh(x) == (x \div 256) * 256

QuicNetByteSwapShort(x) ==
    ((AndLow(x) * 256) + (AndHigh(x) \div 256)) % (UINT16_MAX + 1)

QuicAddrIsValid(Addr) ==
    \/ si_family(Addr) = AF_UNSPEC
    \/ si_family(Addr) = AF_INET
    \/ si_family(Addr) = AF_INET6

QuicAddrCompareIp(Addr1, Addr2) ==
    IF si_family(Addr1) = AF_INET
    THEN MemEqual(Addr1, QUIC_ADDR_V4_IP_OFFSET, Addr2, QUIC_ADDR_V4_IP_OFFSET,
                  SizeofInAddr)
    ELSE MemEqual(Addr1, QUIC_ADDR_V6_IP_OFFSET, Addr2, QUIC_ADDR_V6_IP_OFFSET,
                  SizeofIn6Addr)

\* QuicAddrCompare without the port test.
QuicAddrCompare_NoPort(Addr1, Addr2) ==
    IF si_family(Addr1) # si_family(Addr2)
    THEN FALSE
    ELSE QuicAddrCompareIp(Addr1, Addr2)

\* QuicAddrCompare without the family test.
QuicAddrCompare_NoFamily(Addr1, Addr2) ==
    IF sin_port(Addr1) # sin_port(Addr2)
    THEN FALSE
    ELSE QuicAddrCompareIp(Addr1, Addr2)

QuicAddrCompare(Addr1, Addr2) ==
    IF \/ si_family(Addr1) # si_family(Addr2)
       \/ sin_port(Addr1) # sin_port(Addr2)
    THEN FALSE
    ELSE QuicAddrCompareIp(Addr1, Addr2)

\* const IN_ADDR ZeroAddr = {0}; const IN6_ADDR ZeroAddr = {0};
ZeroAddr == [i \in Offsets |-> 0]

\* QuicAddrIsWildCard testing the IPv6 bytes for every family.
QuicAddrIsWildCard_V6Only(Addr) ==
    IF si_family(Addr) = AF_UNSPEC THEN TRUE
    ELSE MemEqual(Addr, QUIC_ADDR_V6_IP_OFFSET, ZeroAddr, 0, SizeofIn6Addr)

QuicAddrIsWildCard(Addr) ==
    IF si_family(Addr) = AF_UNSPEC THEN TRUE
    ELSE IF si_family(Addr) = AF_INET
    THEN MemEqual(Addr, QUIC_ADDR_V4_IP_OFFSET, ZeroAddr, 0, SizeofInAddr)
    ELSE MemEqual(Addr, QUIC_ADDR_V6_IP_OFFSET, ZeroAddr, 0, SizeofIn6Addr)

QuicAddrGetFamily(Addr) == si_family(Addr)

QuicAddrSetFamily(Addr, Family) == Write16(Addr, 0, Family)

\* QuicAddrGetPort without the byte swap.
QuicAddrGetPort_NoSwap(Addr) == sin_port(Addr)

QuicAddrGetPort(Addr) == QuicNetByteSwapShort(sin_port(Addr))

QuicAddrSetPort(Addr, Port) ==
    Write16(Addr, QUIC_ADDR_V4_PORT_OFFSET, QuicNetByteSwapShort(Port))

\* QuicAddrIsBoundExplicitly reading the scope id of IPv6 addresses only.
QuicAddrIsBoundExplicitly_V6Only(Addr) ==
    si_family(Addr) # AF_INET6 \/ sin6_scope_id(Addr) = <<0, 0>>

QuicAddrIsBoundExplicitly(Addr) == sin6_scope_id(Addr) = <<0, 0>>

\* QuicAddrSetToLoopback writing the IPv6 byte whatever the family.
QuicAddrSetToLoopback_NoFamily(Addr) ==
    Write8(Addr, QUIC_ADDR_V6_IP_OFFSET + 15, 1)

QuicAddrSetToLoopback(Addr) ==
    IF si_family(Addr) = AF_INET
    THEN Write8(Write8(Addr, QUIC_ADDR_V4_IP_OFFSET, 127),
                QUIC_ADDR_V4_IP_OFFSET + 3, 1)
    ELSE Write8(Addr, QUIC_ADDR_V6_IP_OFFSET + 15, 1)

(***************************************************************************)
(* QuicAddrHash.  Hash is a uint32_t: <<high 16 bits, low 16 bits>>.       *)
(***************************************************************************)
\* The values of a uint32_t.
UINT32 == (0..UINT16_MAX) \X (0..UINT16_MAX)

\* uint32_t Hash = 5387
HashSeed == 5387

\* (uint32_t)(h << 5)
U32Shl5(h) ==
    LET lo == h[2] * 32
        hi == h[1] * 32 + lo \div 65536
    IN  <<hi % 65536, lo % 65536>>

\* (uint32_t)(a - b)
U32Sub(a, b) ==
    LET lo == a[2] - b[2]
        borrow == IF lo < 0 THEN 1 ELSE 0
        hi == a[1] - b[1] - borrow
    IN  <<(hi + 65536) % 65536, (lo + 65536) % 65536>>

\* (uint32_t)(a + b)
U32Add(a, b) ==
    LET lo == a[2] + b[2]
        hi == a[1] + b[1] + lo \div 65536
    IN  <<hi % 65536, lo % 65536>>

\* UPDATE_HASH adding Hash instead of subtracting it (h * 33 + byte).
UPDATE_HASH_Plus(Hash, byte) ==
    U32Add(U32Add(U32Shl5(Hash), Hash), <<0, byte>>)

\* #define UPDATE_HASH(byte) Hash = ((Hash << 5) - Hash) + (byte)
UPDATE_HASH(Hash, byte) == U32Add(U32Sub(U32Shl5(Hash), Hash), <<0, byte>>)

\* for (uint8_t i = 0; i < n; ++i) UPDATE_HASH(((uint8_t*)&field)[i]);
RECURSIVE HashLoop(_, _, _, _, _)
HashLoop(Hash, Addr, off, i, n) ==
    IF Hash \in UINT32 /\ i < n
    THEN HashLoop(UPDATE_HASH(Hash, Addr[off + i]), Addr, off, i + 1, n)
    ELSE Hash

\* QuicAddrHash taking the IPv6 branch for AF_INET6 only.
QuicAddrHash_V4Default(Addr) ==
    IF si_family(Addr) # AF_INET6
    THEN LET h1 == UPDATE_HASH(<<0, HashSeed>>, sin_port(Addr) % 256)
             h2 == UPDATE_HASH(h1, sin_port(Addr) \div 256)
         IN  HashLoop(h2, Addr, QUIC_ADDR_V4_IP_OFFSET, 0, SizeofInAddr)
    ELSE LET h1 == UPDATE_HASH(<<0, HashSeed>>, sin6_port(Addr) % 256)
             h2 == UPDATE_HASH(h1, sin6_port(Addr) \div 256)
         IN  HashLoop(h2, Addr, QUIC_ADDR_V6_IP_OFFSET, 0, SizeofIn6Addr)

QuicAddrHash(Addr) ==
    IF si_family(Addr) = AF_INET
    THEN LET h1 == UPDATE_HASH(<<0, HashSeed>>, sin_port(Addr) % 256)
             h2 == UPDATE_HASH(h1, sin_port(Addr) \div 256)
         IN  HashLoop(h2, Addr, QUIC_ADDR_V4_IP_OFFSET, 0, SizeofInAddr)
    ELSE LET h1 == UPDATE_HASH(<<0, HashSeed>>, sin6_port(Addr) % 256)
             h2 == UPDATE_HASH(h1, sin6_port(Addr) \div 256)
         IN  HashLoop(h2, Addr, QUIC_ADDR_V6_IP_OFFSET, 0, SizeofIn6Addr)

(***************************************************************************)
(* Status codes.  An NTSTATUS is a signed 32-bit integer; NTSTATUS(hi, lo) *)
(* is the cast (NTSTATUS)0xHHHHLLLL of the literal with the given halves.  *)
(***************************************************************************)
NTSTATUS(hi, lo) ==
    IF hi >= 32768 THEN (hi - 65536) * 65536 + lo ELSE hi * 65536 + lo

\* NT_SUCCESS(Status): ((NTSTATUS)(Status)) >= 0
NT_SUCCESS(X) == X >= 0

\* QUIC_FAILED as a comparison with STATUS_SUCCESS.
QUIC_FAILED_NotZero(X) == X # 0

QUIC_FAILED(X) == ~NT_SUCCESS(X)

QUIC_SUCCEEDED(X) == NT_SUCCESS(X)

\* 0xC0240000, 0xC0240001, 0xC0240002
STATUS_QUIC_HANDSHAKE_FAILURE == NTSTATUS(49188, 0)
STATUS_QUIC_VER_NEG_FAILURE == NTSTATUS(49188, 1)
STATUS_QUIC_USER_CANCELED == NTSTATUS(49188, 2)

\* The values of the ntstatus.h names the header maps to.
QUIC_STATUS_SUCCESS == NTSTATUS(0, 0)                 \* STATUS_SUCCESS 0x00000000
QUIC_STATUS_PENDING == NTSTATUS(0, 259)               \* STATUS_PENDING 0x00000103
QUIC_STATUS_CONTINUE == NTSTATUS(0, 260)              \* STATUS_REPARSE 0x00000104
QUIC_STATUS_OUT_OF_MEMORY == NTSTATUS(49152, 23)      \* STATUS_NO_MEMORY 0xC0000017
QUIC_STATUS_INVALID_PARAMETER == NTSTATUS(49152, 13)  \* STATUS_INVALID_PARAMETER 0xC000000D
QUIC_STATUS_INVALID_STATE == NTSTATUS(49152, 388)     \* STATUS_INVALID_DEVICE_STATE 0xC0000184
QUIC_STATUS_NOT_SUPPORTED == NTSTATUS(49152, 187)     \* STATUS_NOT_SUPPORTED 0xC00000BB
QUIC_STATUS_NOT_FOUND == NTSTATUS(49152, 549)         \* STATUS_NOT_FOUND 0xC0000225
QUIC_STATUS_BUFFER_TOO_SMALL == NTSTATUS(49152, 35)   \* STATUS_BUFFER_TOO_SMALL 0xC0000023
QUIC_STATUS_HANDSHAKE_FAILURE == STATUS_QUIC_HANDSHAKE_FAILURE
QUIC_STATUS_ABORTED == NTSTATUS(49152, 288)           \* STATUS_CANCELLED 0xC0000120
QUIC_STATUS_ADDRESS_IN_USE == NTSTATUS(49152, 522)    \* STATUS_ADDRESS_ALREADY_EXISTS 0xC000020A
QUIC_STATUS_CONNECTION_TIMEOUT == NTSTATUS(49152, 524) \* STATUS_CONNECTION_DISCONNECTED 0xC000020C
QUIC_STATUS_CONNECTION_IDLE == NTSTATUS(49152, 577)   \* STATUS_CONNECTION_ABORTED 0xC0000241
QUIC_STATUS_UNREACHABLE == NTSTATUS(49152, 573)       \* STATUS_HOST_UNREACHABLE 0xC000023D
QUIC_STATUS_INTERNAL_ERROR == NTSTATUS(49152, 229)    \* STATUS_INTERNAL_ERROR 0xC00000E5
QUIC_STATUS_SERVER_BUSY == NTSTATUS(49152, 566)       \* STATUS_CONNECTION_REFUSED 0xC0000236
QUIC_STATUS_PROTOCOL_ERROR == NTSTATUS(49152, 570)    \* STATUS_CONNECTION_INVALID 0xC000023A
QUIC_STATUS_VER_NEG_ERROR == STATUS_QUIC_VER_NEG_FAILURE
QUIC_STATUS_USER_CANCELED == STATUS_QUIC_USER_CANCELED

\* The 20 QUIC_STATUS_* names, in the order of the header.
QuicStatusTable ==
    << QUIC_STATUS_SUCCESS, QUIC_STATUS_PENDING, QUIC_STATUS_CONTINUE,
       QUIC_STATUS_OUT_OF_MEMORY, QUIC_STATUS_INVALID_PARAMETER,
       QUIC_STATUS_INVALID_STATE, QUIC_STATUS_NOT_SUPPORTED,
       QUIC_STATUS_NOT_FOUND, QUIC_STATUS_BUFFER_TOO_SMALL,
       QUIC_STATUS_HANDSHAKE_FAILURE, QUIC_STATUS_ABORTED,
       QUIC_STATUS_ADDRESS_IN_USE, QUIC_STATUS_CONNECTION_TIMEOUT,
       QUIC_STATUS_CONNECTION_IDLE, QUIC_STATUS_UNREACHABLE,
       QUIC_STATUS_INTERNAL_ERROR, QUIC_STATUS_SERVER_BUSY,
       QUIC_STATUS_PROTOCOL_ERROR, QUIC_STATUS_VER_NEG_ERROR,
       QUIC_STATUS_USER_CANCELED >>

QuicStatusValues == {QuicStatusTable[i] : i \in DOMAIN QuicStatusTable}

(***************************************************************************)
(* The state: two addresses held by a caller, the image of Addr1 before    *)
(* the last helper that wrote it, that helper and its argument (0 if it   *)
(* has none), and                                                          *)
(* a status with its classification by QUIC_FAILED and QUIC_SUCCEEDED.     *)
(***************************************************************************)
VARIABLES Addr1, Addr2, Prev, op, arg, Status, Failed, Succeeded

vars == <<Addr1, Addr2, Prev, op, arg, Status, Failed, Succeeded>>

\* The bounds of the model: the family tags, host-order ports and region
\* contents the addresses are drawn from.  Every sequence of helper calls
\* on them is explored.
Families == {AF_UNSPEC, AF_INET, AF_INET6}
\* A family tag that is none of the three valid ones (AF_UNIX).
OtherFamilies == {1}
PortVals == {443, 8443}
Zero4 == <<0, 0, 0, 0>>
Loopback4 == <<127, 0, 0, 1>>
Zero16 == [i \in 1..SizeofIn6Addr |-> 0]
Loopback6 == [i \in 1..SizeofIn6Addr |-> IF i = SizeofIn6Addr THEN 1 ELSE 0]
LinkLocal6 ==
    [i \in 1..SizeofIn6Addr |->
        IF i = 1 THEN 254 ELSE IF i = 2 THEN 128
        ELSE IF i = SizeofIn6Addr THEN 2 ELSE 0]
V4Vals == {Zero4, Loopback4, <<192, 168, 1, 1>>}
V6Vals == {Zero16, Loopback6, LinkLocal6}
ScopeVals == {<<0, 0, 0, 0>>, <<1, 0, 0, 0>>, <<0, 0, 1, 0>>}

InputAddrs ==
    {MkAddr(f, QuicNetByteSwapShort(p), v4, v6, sc) :
        f \in Families, p \in PortVals, v4 \in V4Vals, v6 \in V6Vals,
        sc \in ScopeVals}

Init ==
    /\ Addr1 \in InputAddrs
    /\ Addr2 \in InputAddrs
    /\ Prev = Addr1
    /\ op = "Init"
    /\ arg = 0
    /\ Status = QUIC_STATUS_SUCCESS
    /\ Failed = FALSE
    /\ Succeeded = FALSE

SetFamily ==
    /\ \E f \in Families \cup OtherFamilies :
          /\ Addr1' = QuicAddrSetFamily(Addr1, f)
          /\ arg' = f
    /\ Prev' = Addr1
    /\ op' = "SetFamily"
    /\ UNCHANGED <<Addr2, Status, Failed, Succeeded>>

SetPort ==
    /\ \E p \in PortVals :
          /\ Addr1' = QuicAddrSetPort(Addr1, p)
          /\ arg' = p
    /\ Prev' = Addr1
    /\ op' = "SetPort"
    /\ UNCHANGED <<Addr2, Status, Failed, Succeeded>>

SetToLoopback ==
    /\ Addr1' = QuicAddrSetToLoopback(Addr1)
    /\ Prev' = Addr1
    /\ op' = "SetToLoopback"
    /\ arg' = 0
    /\ UNCHANGED <<Addr2, Status, Failed, Succeeded>>

Next == SetFamily \/ SetPort \/ SetToLoopback

Spec == Init /\ [][Next]_vars

(***************************************************************************)
(* Ports: QuicAddrSetPort applied once with every 16-bit port.             *)
(***************************************************************************)
PortAddrs ==
    {MkAddr(f, 0, v4, Loopback6, <<1, 0, 0, 0>>) :
        f \in Families, v4 \in {Loopback4}}

InitPort ==
    /\ Addr1 \in PortAddrs
    /\ Addr2 = Addr1
    /\ Prev = Addr1
    /\ op = "Init"
    /\ arg = 0
    /\ Status = QUIC_STATUS_SUCCESS
    /\ Failed = FALSE
    /\ Succeeded = FALSE

SetPortAny ==
    /\ op = "Init"
    /\ \E p \in 0..UINT16_MAX :
          /\ Addr1' = QuicAddrSetPort(Addr1, p)
          /\ arg' = p
    /\ Prev' = Addr1
    /\ op' = "SetPort"
    /\ UNCHANGED <<Addr2, Status, Failed, Succeeded>>

NextPort == SetPortAny

SpecPort == InitPort /\ [][NextPort]_vars

(***************************************************************************)
(* Statuses: a status value is classified by both macros.  The inputs are  *)
(* the 20 mapped values and their neighbours in the NTSTATUS space: every  *)
(* low half of a mapped value under every severity/facility high half.     *)
(***************************************************************************)
StatusHighs == {0, 16384, 32767, 32768, 49152, 49188, 65535}
StatusLows ==
    {0, 1, 2, 13, 23, 35, 187, 229, 259, 260, 288, 388, 522, 524, 549, 566,
     570, 573, 577, 65535}
StatusInputs ==
    QuicStatusValues \cup {NTSTATUS(hi, lo) : hi \in StatusHighs, lo \in StatusLows}

InitStatus ==
    /\ Addr1 = ZeroAddr
    /\ Addr2 = ZeroAddr
    /\ Prev = ZeroAddr
    /\ op = "Init"
    /\ arg = 0
    /\ Status \in StatusInputs
    /\ Failed = FALSE
    /\ Succeeded = FALSE

Classify ==
    /\ op = "Init"
    /\ Failed' = QUIC_FAILED(Status)
    /\ Succeeded' = QUIC_SUCCEEDED(Status)
    /\ op' = "Classify"
    /\ UNCHANGED <<Addr1, Addr2, Prev, arg, Status>>

NextStatus == Classify

SpecStatus == InitStatus /\ [][NextStatus]_vars

(***************************************************************************)
(* Properties.                                                             *)
(***************************************************************************)
Payload4 == QUIC_ADDR_V4_IP_OFFSET..(QUIC_ADDR_V4_IP_OFFSET + SizeofInAddr - 1)
Payload6 == QUIC_ADDR_V6_IP_OFFSET..(QUIC_ADDR_V6_IP_OFFSET + SizeofIn6Addr - 1)
ScopeBytes == QUIC_ADDR_V6_SCOPE_OFFSET..(SizeofQuicAddr - 1)
Wrote == op \in {"SetFamily", "SetPort", "SetToLoopback"}

\* C1: two valid addresses that QuicAddrCompare finds equal have the same
\* QuicAddrHash, also when their family is AF_UNSPEC.
C1_CompareImpliesSameHash ==
    (/\ QuicAddrIsValid(Addr1)
     /\ QuicAddrIsValid(Addr2)
     /\ QuicAddrCompare(Addr1, Addr2))
        => QuicAddrHash(Addr1) = QuicAddrHash(Addr2)

\* Two distinct AF_UNSPEC images, differing in bytes neither function reads,
\* compare equal after a helper wrote Addr1.
C1_Witness ==
    /\ Wrote
    /\ si_family(Addr1) = AF_UNSPEC
    /\ QuicAddrCompare(Addr1, Addr2)
    /\ Addr1 # Addr2
    /\ sin_addr(Addr1) # sin_addr(Addr2)

\* C2 as stated: QUIC_STATUS_SUCCESS succeeds and does not fail, and every
\* other of the 20 mapped statuses fails.
C2_OnlySuccessSucceeds ==
    (op = "Classify" /\ Status \in QuicStatusValues)
        => IF Status = QUIC_STATUS_SUCCESS
           THEN Succeeded /\ ~Failed
           ELSE Failed

\* C2 amended: QUIC_STATUS_SUCCESS, QUIC_STATUS_PENDING and
\* QUIC_STATUS_CONTINUE succeed and do not fail; each of the other 17 mapped
\* statuses fails and does not succeed.
C2_Classification ==
    (op = "Classify" /\ Status \in QuicStatusValues)
        => IF Status \in {QUIC_STATUS_SUCCESS, QUIC_STATUS_PENDING,
                          QUIC_STATUS_CONTINUE}
           THEN Succeeded /\ ~Failed
           ELSE Failed /\ ~Succeeded

C2_Witness ==
    /\ op = "Classify"
    /\ Status = QUIC_STATUS_PENDING
    /\ Succeeded
    /\ ~Failed

\* C3: after QuicAddrSetToLoopback an AF_INET address holds 127.0.0.1 and an
\* AF_INET6 address holds ::1, whatever the address bytes were before.
C3_LoopbackValue ==
    op = "SetToLoopback"
        => /\ si_family(Addr1) = AF_INET => sin_addr(Addr1) = Loopback4
           /\ si_family(Addr1) = AF_INET6 => sin6_addr(Addr1) = Loopback6

\* C4: QuicAddrGetPort after QuicAddrSetPort(a, p) returns p, and the port
\* field holds p in network order (high byte first in memory).
C4_PortRoundTrip ==
    op = "SetPort"
        => /\ QuicAddrGetPort(Addr1) = arg
           /\ Addr1[QUIC_ADDR_V4_PORT_OFFSET] = arg \div 256
           /\ Addr1[QUIC_ADDR_V4_PORT_OFFSET + 1] = arg % 256
           /\ sin_port(Addr1) = (arg % 256) * 256 + arg \div 256

\* A port whose two bytes differ and whose high bit is set was stored.
C4_Witness ==
    /\ op = "SetPort"
    /\ arg = 65534
    /\ sin_port(Addr1) = 65279
    /\ QuicAddrGetPort(Addr1) = 65534
    /\ si_family(Addr1) = AF_INET6

\* C5: QuicAddrCompare is FALSE when the family tags or the raw ports
\* differ; with both equal it is QuicAddrCompareIp; two AF_INET addresses
\* with the same 4 bytes and port are equal, and setting another port on
\* one of two equal addresses makes them unequal.
C5_Compare ==
    /\ (si_family(Addr1) # si_family(Addr2) \/ sin_port(Addr1) # sin_port(Addr2))
          => ~QuicAddrCompare(Addr1, Addr2)
    /\ (si_family(Addr1) = si_family(Addr2) /\ sin_port(Addr1) = sin_port(Addr2))
          => (QuicAddrCompare(Addr1, Addr2) <=> QuicAddrCompareIp(Addr1, Addr2))
    /\ (/\ si_family(Addr1) = AF_INET
        /\ si_family(Addr2) = AF_INET
        /\ sin_addr(Addr1) = sin_addr(Addr2)
        /\ QuicAddrGetPort(Addr1) = QuicAddrGetPort(Addr2))
          => QuicAddrCompare(Addr1, Addr2)
    /\ (/\ op = "SetPort"
        /\ QuicAddrCompare(Prev, Addr2)
        /\ arg # QuicAddrGetPort(Prev))
          => ~QuicAddrCompare(Addr1, Addr2)

\* 192.168.1.1:443 equalled Addr2, then its port was set to 8443.
C5_Witness ==
    /\ op = "SetPort"
    /\ si_family(Addr1) = AF_INET
    /\ sin_addr(Addr1) = <<192, 168, 1, 1>>
    /\ QuicAddrGetPort(Prev) = 443
    /\ arg = 8443
    /\ Prev # Addr2
    /\ QuicAddrCompare(Prev, Addr2)
    /\ ~QuicAddrCompare(Addr1, Addr2)

\* C6: for a valid address QuicAddrIsWildCard is TRUE exactly when the
\* family is AF_UNSPEC, or AF_INET with 4 zero address bytes, or AF_INET6
\* with 16 zero address bytes; port and scope id do not influence it.
C6_WildCard ==
    /\ QuicAddrIsValid(Addr1)
          => (QuicAddrIsWildCard(Addr1) <=>
                \/ si_family(Addr1) = AF_UNSPEC
                \/ si_family(Addr1) = AF_INET /\ sin_addr(Addr1) = Zero4
                \/ si_family(Addr1) = AF_INET6 /\ sin6_addr(Addr1) = Zero16)
    /\ (/\ QuicAddrIsValid(Addr1)
        /\ \A i \in Offsets \ (ScopeBytes \cup {QUIC_ADDR_V4_PORT_OFFSET,
                                                 QUIC_ADDR_V4_PORT_OFFSET + 1}) :
              Addr1[i] = Addr2[i])
          => QuicAddrIsWildCard(Addr1) = QuicAddrIsWildCard(Addr2)
    /\ (op = "SetPort" /\ QuicAddrIsValid(Prev))
          => QuicAddrIsWildCard(Addr1) = QuicAddrIsWildCard(Prev)

\* An AF_INET wildcard with a port, a scope id and non-zero IPv6 bytes.
C6_Witness ==
    /\ op = "SetPort"
    /\ si_family(Addr1) = AF_INET
    /\ sin_addr(Addr1) = Zero4
    /\ sin6_addr(Addr1) # Zero16
    /\ sin_port(Addr1) # 0
    /\ ~QuicAddrIsBoundExplicitly(Addr1)
    /\ QuicAddrIsWildCard(Addr1)

\* C7: QuicAddrIsBoundExplicitly is TRUE exactly when the four scope-id
\* bytes are zero, for every family, and family, port and address bytes do
\* not influence it.
C7_BoundExplicitly ==
    /\ QuicAddrIsBoundExplicitly(Addr1) <=> (\A i \in ScopeBytes : Addr1[i] = 0)
    /\ (\A i \in ScopeBytes : Addr1[i] = Addr2[i])
          => QuicAddrIsBoundExplicitly(Addr1) = QuicAddrIsBoundExplicitly(Addr2)
    /\ Wrote => QuicAddrIsBoundExplicitly(Addr1) = QuicAddrIsBoundExplicitly(Prev)

\* An AF_INET address with a scope id above 16 bits is not bound explicitly,
\* and stays so when loopback bytes are written.
C7_Witness ==
    /\ op = "SetToLoopback"
    /\ Addr1 # Prev
    /\ si_family(Addr1) = AF_INET
    /\ sin6_scope_id(Addr1) = <<1, 0>>
    /\ ~QuicAddrIsBoundExplicitly(Addr1)

\* C8: on an AF_INET or AF_INET6 address QuicAddrSetToLoopback leaves the
\* family, the port and the scope id as they were and writes only address
\* bytes of that family.
C8_LoopbackFrame ==
    (op = "SetToLoopback" /\ si_family(Prev) \in {AF_INET, AF_INET6})
        => /\ si_family(Addr1) = si_family(Prev)
           /\ sin_port(Addr1) = sin_port(Prev)
           /\ sin6_scope_id(Addr1) = sin6_scope_id(Prev)
           /\ \A i \in Offsets :
                 Addr1[i] # Prev[i] =>
                    i \in (IF si_family(Prev) = AF_INET THEN Payload4 ELSE Payload6)

C8_Witness ==
    /\ op = "SetToLoopback"
    /\ si_family(Prev) = AF_INET
    /\ Addr1 # Prev
    /\ sin_port(Addr1) # 0
    /\ ~QuicAddrIsBoundExplicitly(Addr1)

\* h * 31 + byte modulo 2^32.
Mul31Add(h, byte) ==
    LET lo == h[2] * 31 + byte
        hi == h[1] * 31 + lo \div 65536
    IN  <<hi % 65536, lo % 65536>>

RECURSIVE Fold31(_, _)
Fold31(h, bytes) ==
    IF bytes = <<>> THEN h ELSE Fold31(Mul31Add(h, Head(bytes)), Tail(bytes))

\* C9: for AF_INET and AF_INET6 QuicAddrHash is the fold h := h * 31 + byte
\* modulo 2^32 from 5387 over the low byte of the raw port, its high byte and
\* the 4 or 16 address bytes in memory order; it depends on nothing else.
C9_Hash ==
    /\ si_family(Addr1) = AF_INET
          => QuicAddrHash(Addr1) =
                Fold31(<<0, 5387>>,
                       <<sin_port(Addr1) % 256, sin_port(Addr1) \div 256>>
                          \o sin_addr(Addr1))
    /\ si_family(Addr1) = AF_INET6
          => QuicAddrHash(Addr1) =
                Fold31(<<0, 5387>>,
                       <<sin_port(Addr1) % 256, sin_port(Addr1) \div 256>>
                          \o sin6_addr(Addr1))
    /\ (/\ si_family(Addr1) \in {AF_INET, AF_INET6}
        /\ si_family(Addr1) = si_family(Addr2)
        /\ sin_port(Addr1) = sin_port(Addr2)
        /\ IF si_family(Addr1) = AF_INET
           THEN sin_addr(Addr1) = sin_addr(Addr2)
           ELSE sin6_addr(Addr1) = sin6_addr(Addr2))
          => QuicAddrHash(Addr1) = QuicAddrHash(Addr2)

\* An AF_INET6 hash that exceeds 31 bits, of an address with a scope id
\* and IPv4-region bytes that differ from those of an address of equal hash.
C9_Witness ==
    /\ Wrote
    /\ si_family(Addr1) = AF_INET6
    /\ si_family(Addr2) = AF_INET6
    /\ sin6_addr(Addr1) # Zero16
    /\ QuicAddrHash(Addr1)[1] >= 32768
    /\ QuicAddrHash(Addr1) = QuicAddrHash(Addr2)
    /\ sin6_scope_id(Addr1) # sin6_scope_id(Addr2)
    /\ sin_addr(Addr1) # sin_addr(Addr2)

\* C10: QuicAddrCompare is reflexive, symmetric and transitive.
C10_Equivalence ==
    /\ QuicAddrCompare(Addr1, Addr1)
    /\ QuicAddrCompare(Addr1, Addr2) = QuicAddrCompare(Addr2, Addr1)
    /\ QuicAddrCompare(Addr1, Addr2)
          => \A c \in InputAddrs :
                QuicAddrCompare(Addr2, c) => QuicAddrCompare(Addr1, c)

\* QuicAddrCompareIp alone is not symmetric on two addresses of different
\* families, while Addr1 equals a distinct third address.
C10_Witness ==
    /\ Wrote
    /\ si_family(Addr1) # si_family(Addr2)
    /\ QuicAddrCompareIp(Addr1, Addr2)
    /\ ~QuicAddrCompareIp(Addr2, Addr1)
    /\ QuicAddrCompare(Addr1, Addr2) = QuicAddrCompare(Addr2, Addr1)
    /\ \E c \in InputAddrs : c # Addr1 /\ QuicAddrCompare(Addr1, c)

====
